---- MODULE Spec2Model ----
(***************************************************************************)
(* State-machine model of the rocalution linear-solver backend             *)
(* (opm/simulators/linalg/gpubridge/rocm/rocalutionSolverBackend.cpp).     *)
(*                                                                         *)
(* Arrays of the program are 0-based; here they are sequences, so program  *)
(* index j is sequence index j + 1.  Scalars that the program only copies  *)
(* (matrix values, solution entries) are integers; doubles the program     *)
(* computes with (residuals, reduction, conv_rate) are the records of the  *)
(* section "Doubles".                                                      *)
(***************************************************************************)
EXTENDS Integers, Sequences, FiniteSets, TLC

\* ------------------------------------------------------------------ bounds

\* Largest number of block rows of an input matrix.
MaxNb == 2
\* Number of solve_system calls made on one backend.
MaxCalls == 2
\* The maxit the backend is constructed with.
MaxIt == 1
\* Block sizes the session specification instantiates (1..MaxSessionBlockSize).
MaxSessionBlockSize == 3
\* Seeds of the input value patterns (0..MaxSeed).
MaxSeed == 1
\* Distinct solutions the Krylov solver may produce (1..MaxSolTag).
MaxSolTag == 1
\* Largest number of blocks of a round-trip input.
MaxRtBlocks == 2
\* Report steps of the schedules the simulator runs (1..MaxSteps).
MaxSteps == 2
\* Sub steps adaptive time stepping takes in one report step (1..MaxSubSteps).
MaxSubSteps == 2
\* Calls run() makes: init, writeReports and runStep per step, writeReports,
\* finalize, and one to spare.
MaxRunLog == 8
\* Report steps of the schedules init's coupling check scans (0..MaxCouplingSteps).
MaxCouplingSteps == 3

\* ------------------------------------------------------- program constants

\* The largest block size the file instantiates (INSTANTIATE_TYPE).
MaxBlockSize == 6
\* Content of memory obtained with new[] and not yet written.
Uninit == -99
\* rocalution's solver status codes, as the comment in solve_system lists them.
StatusNone == 0
StatusAbsTol == 1
StatusRelTol == 2
StatusDivergence == 3
StatusMaxIter == 4

\* What an out-of-bounds read may return (one value that no input holds, one
\* that inputs hold).
Garbage == {-1, 1}

\* --------------------------------------------------------------- doubles
\* A non-negative double: not-a-number, +infinity, or the r-th root of n/d
\* (r = 1: the rational n/d), n/d in lowest terms.

RECURSIVE Gcd(_, _)
Gcd(a, c) == IF c = 0 THEN a ELSE Gcd(c, a % c)

DNaN == [k |-> "nan", n |-> 0, d |-> 1, r |-> 1]
DInf == [k |-> "inf", n |-> 0, d |-> 1, r |-> 1]
DUnset == [k |-> "unset", n |-> 0, d |-> 1, r |-> 1]
DFin(n, d) ==
    LET g == Gcd(n, d) IN [k |-> "fin", n |-> n \div g, d |-> d \div g, r |-> 1]
DZero == DFin(0, 1)
DOne == DFin(1, 1)

\* x / y in IEEE arithmetic, x and y non-negative.
DDiv(x, y) ==
    IF x.k = "nan" \/ y.k = "nan" THEN DNaN
    ELSE IF x.k = "inf" THEN (IF y.k = "inf" THEN DNaN ELSE DInf)
    ELSE IF y.k = "inf" THEN DZero
    ELSE IF y.n = 0 THEN (IF x.n = 0 THEN DNaN ELSE DInf)
    ELSE DFin(x.n * y.d, x.d * y.n)

\* x <= y as doubles compare (false when either is not a number), for
\* rationals and infinity.
DLeq(x, y) ==
    IF x.k = "nan" \/ y.k = "nan" THEN FALSE
    ELSE IF y.k = "inf" THEN TRUE
    ELSE IF x.k = "inf" THEN FALSE
    ELSE x.n * y.d <= y.n * x.d

\* The integer r-th root of v when v is a perfect r-th power, else -1.
IntRoot(v, r) ==
    LET c == {t \in 0..v : (r = 1 /\ t = v) \/ (r = 2 /\ t * t = v)
                           \/ (r = 3 /\ t * t * t = v)}
    IN IF c = {} THEN -1 ELSE CHOOSE t \in c : TRUE

\* pow(x, e) of <cmath> for x >= 0 and e = +infinity or e = 1/m, m >= 1.
DPow(x, e) ==
    IF x.k = "nan" \/ e.k = "nan" THEN DNaN
    ELSE IF e.k = "inf"
         THEN (IF x.k = "inf" THEN DInf
               ELSE IF x.n < x.d THEN DZero
               ELSE IF x.n = x.d THEN DOne
               ELSE DInf)
    ELSE IF x.k = "inf" THEN DInf
    ELSE IF x.n = 0 THEN DZero
    ELSE IF x.n = x.d THEN DOne
    ELSE LET m == e.d
             rn == IF m <= 3 THEN IntRoot(x.n, m) ELSE -1
             rd == IF m <= 3 THEN IntRoot(x.d, m) ELSE -1
         IN IF rn >= 0 /\ rd >= 0 THEN DFin(rn, rd)
            ELSE [k |-> "fin", n |-> x.n, d |-> x.d, r |-> m]

\* ---------------------------------------------------------- input matrices
\* BlockedMatrix: Nb, nnzbs, rowPointers, colIndices, nnzValues.

ValueAt(seed, j) == (j + 1) * (seed + 1)

Mat(n, nz, rp, ci, bs, seed) ==
    [Nb |-> n, nnzbs |-> nz, rowPointers |-> rp, colIndices |-> ci,
     nnzValues |-> [j \in 1..(nz * bs * bs) |-> ValueAt(seed, j - 1)]]

\* One diagonal block per row.
DiagMat(n, bs, seed) ==
    Mat(n, n, [i \in 1..(n + 1) |-> i - 1], [i \in 1..n |-> i - 1], bs, seed)
\* Row 0 full, the other rows diagonal.
ArrowMat(n, bs, seed) ==
    Mat(n, 2 * n - 1,
        [i \in 1..(n + 1) |-> IF i = 1 THEN 0 ELSE n + i - 2],
        [i \in 1..(2 * n - 1) |-> IF i <= n THEN i - 1 ELSE i - n], bs, seed)
\* One block per row on the anti-diagonal: for n >= 2 no diagonal block.
AntiDiagMat(n, bs, seed) ==
    Mat(n, n, [i \in 1..(n + 1) |-> i - 1], [i \in 1..n |-> n - i], bs, seed)
\* Malformed: one row pointer too few.
ShortRowPtrMat(n, bs, seed) ==
    Mat(n, n, [i \in 1..n |-> i - 1], [i \in 1..n |-> i - 1], bs, seed)
\* Malformed: the last row pointer is not nnzbs.
BadLastRowPtrMat(n, bs, seed) ==
    Mat(n, n, [i \in 1..(n + 1) |-> IF i = n + 1 THEN n + 1 ELSE i - 1],
        [i \in 1..n |-> i - 1], bs, seed)
\* Malformed: a column index equal to Nb.
BadColIndexMat(n, bs, seed) ==
    Mat(n, n, [i \in 1..(n + 1) |-> i - 1],
        [i \in 1..n |-> IF i = n THEN n ELSE i - 1], bs, seed)

\* The n-by-n identity in blocks of size 1 (for n = 1 it is DiagMat(1, 1, 0)).
IdentityMat(n) == [DiagMat(n, 1, 0) EXCEPT !.nnzValues = [j \in 1..n |-> 1]]

WellFormedInputs(bs) ==
    {DiagMat(n, bs, s) : n \in 1..MaxNb, s \in 0..MaxSeed}
    \cup {ArrowMat(n, bs, 0) : n \in 2..MaxNb}
    \cup {AntiDiagMat(n, bs, 0) : n \in 2..MaxNb}
    \cup (IF bs = 1 THEN {IdentityMat(n) : n \in 2..MaxNb} ELSE {})
MalformedInputs(bs) ==
    {ShortRowPtrMat(MaxNb, bs, 0), BadLastRowPtrMat(MaxNb, bs, 0),
     BadColIndexMat(MaxNb, bs, 0)}
InputMatrices(bs) == WellFormedInputs(bs) \cup MalformedInputs(bs)

\* The data model's well-formedness of a BlockedMatrix.
WellFormed(m) ==
    /\ Len(m.rowPointers) = m.Nb + 1
    /\ m.rowPointers[1] = 0
    /\ m.rowPointers[m.Nb + 1] = m.nnzbs
    /\ \A i \in 1..m.Nb : m.rowPointers[i] <= m.rowPointers[i + 1]
    /\ Len(m.colIndices) = m.nnzbs
    /\ \A i \in 1..m.nnzbs : m.colIndices[i] \in 0..(m.Nb - 1)

\* Right-hand sides of n entries: zero, and 2 * e_0.
RhsSet(n) == {[i \in 1..n |-> 0], [i \in 1..n |-> IF i = 1 THEN 2 ELSE 0]}

NoMatrix == [Nb |-> 0, nnzbs |-> 0, rowPointers |-> <<>>, colIndices |-> <<>>,
             nnzValues |-> <<>>]

\* ------------------------------------------------------------ convert_matrix

\* Lines 119-127: the in-block source offset read for destination offsets 0..8.
TransposeTableTypo == <<0, 3, 6, 1, 4, 7, 2, 5, 5>>
TransposeTable == <<0, 3, 6, 1, 4, 7, 2, 5, 8>>

\* An array of cnt entries obtained with new[].
NewArray(cnt) == [i \in 1..cnt |-> Uninit]

\* Program read of src[j]; past the end of src the read returns g.
ReadAt(src, j, g) == IF j < Len(src) THEN src[j + 1] ELSE g

\* Lines 105-110: for (i = 0; i < cnt; ++i) dst[i] = src[i].
CopyArrayShort(dst, src, cnt, g) ==
    [i \in 1..Len(dst) |-> IF i <= cnt - 1 THEN ReadAt(src, i - 1, g) ELSE dst[i]]
CopyArray(dst, src, cnt, g) ==
    [i \in 1..Len(dst) |-> IF i <= cnt THEN ReadAt(src, i - 1, g) ELSE dst[i]]

\* Lines 119-127, one iteration of the loop: the nine assignments of block i.
\* A write past the end of tmp does not land in tmp.
WriteBlock(tmp, vals, i, bs, g) ==
    [j \in 1..Len(tmp) |->
        LET k == (j - 1) - i * bs * bs
        IN IF k \in 0..8
           THEN ReadAt(vals, i * bs * bs + TransposeTable[k + 1], g)
           ELSE tmp[j]]

\* Lines 118-128: the loop over the blocks i, i + 1, ..., cnt - 1, in order.
RECURSIVE ConvertLoop(_, _, _, _, _, _)
ConvertLoop(tmp, vals, i, cnt, bs, g) ==
    IF i >= cnt THEN tmp
    ELSE ConvertLoop(WriteBlock(tmp, vals, i, bs, g), vals, i + 1, cnt, bs, g)

\* Lines 117-129: the block values are written only when BCSR_IND_BASE == 0.
ConvertValues(tmp, vals, cnt, bs, base, g) ==
    IF base = 0 THEN ConvertLoop(tmp, vals, 0, cnt, bs, g) ELSE tmp

\* The accesses of lines 105-129 that fall outside their array: the matrix's
\* arrays hold what the caller allocated, tmp_nnzvalues holds cnt*bs*bs entries.
ConvertOutOfBounds(m, nb, cnt, bs, base) ==
    (IF Len(m.rowPointers) < nb + 1 THEN {"read rowPointers"} ELSE {})
    \cup (IF Len(m.colIndices) < cnt THEN {"read colIndices"} ELSE {})
    \cup (IF base = 0 /\ \E i \in 0..(cnt - 1), k \in 1..9 :
                i * bs * bs + TransposeTable[k] >= Len(m.nnzValues)
          THEN {"read nnzValues"} ELSE {})
    \cup (IF base = 0 /\ \E i \in 0..(cnt - 1), k \in 0..8 :
                i * bs * bs + k >= cnt * bs * bs
          THEN {"write tmp_nnzvalues"} ELSE {})

\* Lines 117-128: the (block, offset) pairs of the conversion loop whose write
\* tmp_nnzvalues[i * block_size * block_size + k] lands on index idx.
WrittenBy(idx, cnt, bs) ==
    {w \in (0..(cnt - 1)) \X (0..8) : w[1] * bs * bs + w[2] = idx}

\* ------------------------------------------------------------------- state

VARIABLES
    block_size,        \* template parameter of the backend
    BCSR_IND_BASE,     \* rocalution's build-time block order: 0 column-major, 1 row-major
    verbosity, maxit,  \* constructor arguments
    initialized, Nb, N, nnzb, nnz, h_x,             \* members set by initialize
    tmp_rowpointers, tmp_colindices, tmp_nnzvalues, \* staging arrays (<<>>: none)
    tmp_state,         \* "null" or "allocated": what the three tmp_* pointers are
    roc_solver,        \* the BiCGStab object: status, iteration count, residual
    roc_prec,          \* number of times the preconditioner was built
    roc_mat, roc_rhs, roc_x, norm_0,                \* locals of solve_system
    matrix, b, res, ret, x,                         \* the caller's arguments and results
    pc,                \* position of the current solve_system call
    calls,             \* solve_system calls begun
    solves,            \* roc_solver->Solve invocations of the current call
    ub,                \* undefined behaviour so far: out-of-bounds accesses,
                       \* indeterminate values handed to the backend
    time_per_it,       \* "time per iteration" of the verbosity >= 1 log line
    rt,                \* the conversion round trip: stage, inputs, results
    alive,             \* the backend object exists: constructed, not yet destroyed
    ptrs,              \* the unique_ptr members roc_solver, roc_prec: "owned" or "null"
    leaked,            \* objects given up with release() and never deleted
    ctx,               \* this backend's init_rocalution / stop_rocalution calls
    rocalution,        \* the library's process-wide context is initialized
    other,             \* a second backend of the process: "none", "alive", "destroyed"
    wellContribs,      \* the caller's wellContribs argument: 0 none, else the term
    matrix_in,         \* the caller's matrix as it was when the call began
    last_solution,     \* roc_x as the most recent Solve left it
    simpc,             \* position of SimulatorFullyImplicitBlackoil::run
    timer,             \* the SimulatorTimer: current report step, number of steps
    schedule,          \* the Schedule: events, wcycle, exit status, rescoup per step
    params,            \* Parameters::Get: EnableAdaptiveTimeStepping, EnableTuning, Slave
    report_,           \* the SimulatorReport's success fields
    solver_,           \* the unique_ptr<Solver>: NoSolver or the runStep call that made it
    adaptiveTimeStepping_, \* the time stepper: exists, suggested next step
    serializer_,       \* the SimulatorSerializer: step to load (-1: none)
    coupling,          \* what init decided: "unset", "slave", "master", "none", "threw"
    runLog,            \* the calls run() has made, in order
    effects,           \* what the runStep calls did so far: episodes, outputs, ++timer, saves
    entry,             \* the state the current (or last) runStep call began in
    updater            \* the tuningUpdater calls of the current report step

vars == <<block_size, BCSR_IND_BASE, verbosity, maxit, initialized, Nb, N, nnzb,
          nnz, h_x, tmp_rowpointers, tmp_colindices, tmp_nnzvalues, tmp_state,
          roc_solver, roc_prec, roc_mat, roc_rhs, roc_x, norm_0, matrix, b, res,
          ret, x, pc, calls, solves, ub, time_per_it, rt, alive, ptrs, leaked,
          ctx, rocalution, other, wellContribs, matrix_in, last_solution,
          simpc, timer, schedule, params, report_, solver_,
          adaptiveTimeStepping_, serializer_, coupling, runLog, effects, entry,
          updater>>

backendVars == <<block_size, BCSR_IND_BASE, verbosity, maxit, initialized, Nb, N,
                 nnzb, nnz, h_x, tmp_rowpointers, tmp_colindices, tmp_nnzvalues,
                 tmp_state, roc_solver, roc_prec, roc_mat, roc_rhs, roc_x, norm_0,
                 matrix, b, res, ret, x, pc, calls, solves, ub, time_per_it, rt,
                 alive, ptrs, leaked, ctx, rocalution, other, wellContribs,
                 matrix_in, last_solution>>
simVars == <<simpc, timer, schedule, params, report_, solver_,
             adaptiveTimeStepping_, serializer_, coupling, runLog, effects, entry,
             updater>>

configVars == <<block_size, BCSR_IND_BASE, verbosity, maxit>>
sessionVars == <<initialized, Nb, N, nnzb, nnz>>
tmpVars == <<tmp_rowpointers, tmp_colindices, tmp_nnzvalues, tmp_state>>
lifeVars == <<alive, ptrs, leaked, ctx, rocalution, other>>

SolverCleared == [status |-> StatusNone, iter |-> 0, residual |-> DZero]
NoRocMat == [rowptr |-> <<>>, colidx |-> <<>>, vals |-> <<>>, nnzb |-> 0,
             nrow |-> 0, ncol |-> 0, bdim |-> 0]
ResFields == {"elapsed", "iterations", "reduction", "conv_rate", "converged"}
\* The GpuResult the caller passes in: no field assigned yet.
ResUnassigned == [elapsed |-> DUnset, iterations |-> -1, reduction |-> DUnset,
                  conv_rate |-> DUnset, converged |-> FALSE, assigned |-> {}]
NoRoundTrip == [stage |-> "off", bs |-> 0, cnt |-> 0, input |-> <<>>,
                mid |-> <<>>, back |-> <<>>, oob |-> {}]

\* The simulator's values before run() is called.  Line 320: the schedule's
\* exit status is an optional, empty until an action keyword triggers EXIT.
\* Line 637: solver_ is default-constructed, null.
NoExit == -1
NoSolver == 0
NoEffects == [episodes |-> 0, outputs |-> 0, increments |-> 0, saves |-> <<>>]
NoTimer == [currentStepNum |-> 0, numSteps |-> 0]
NoSchedule == [events |-> <<>>, wcycle |-> FALSE, max_next_tstep |-> 0,
               exitStatus |-> NoExit, rescoup |-> <<>>]
NoEntry == [call |-> 0, timer |-> NoTimer, effects |-> NoEffects,
            exitStatus |-> NoExit]
NoTimeStepper == [exists |-> FALSE, suggestedNextStep |-> 0]
ReportCleared == [exit_status |-> 0, converged |-> FALSE]

\* No simulator runs: the state of the backend models.
NoSimulator ==
    /\ simpc = "off"
    /\ timer = NoTimer
    /\ schedule = NoSchedule
    /\ params = [enableAdaptive |-> FALSE, enableTuning |-> FALSE, slave |-> FALSE]
    /\ report_ = ReportCleared
    /\ solver_ = NoSolver
    /\ adaptiveTimeStepping_ = NoTimeStepper
    /\ serializer_ = [loadStep |-> -1]
    /\ coupling = "unset"
    /\ runLog = <<>>
    /\ effects = NoEffects
    /\ entry = NoEntry
    /\ updater = <<>>

\* Line 59: the constructor calls init_rocalution.
ConstructedNoContext == [acquired |-> 0, released |-> 0]
ConstructedContext == [acquired |-> 1, released |-> 0]

\* The members and the caller's data after the constructor (lines 54-67), before
\* any call.
Constructed ==
    /\ initialized = FALSE
    /\ Nb = 0 /\ N = 0 /\ nnzb = 0 /\ nnz = 0
    /\ h_x = <<>>
    /\ tmp_rowpointers = <<>> /\ tmp_colindices = <<>> /\ tmp_nnzvalues = <<>>
    /\ tmp_state = "null"
    /\ roc_solver = SolverCleared
    /\ roc_prec = 0
    /\ roc_mat = NoRocMat /\ roc_rhs = <<>> /\ roc_x = <<>> /\ norm_0 = DUnset
    /\ matrix = NoMatrix /\ b = <<>> /\ res = ResUnassigned /\ ret = "none"
    /\ x = <<>>
    /\ pc = "idle"
    /\ calls = 0 /\ solves = 0
    /\ ub = {}
    /\ time_per_it = DUnset
    /\ alive = TRUE
    /\ ptrs = [roc_solver |-> "owned", roc_prec |-> "owned"]
    /\ leaked = {}
    /\ ctx = ConstructedContext
    /\ rocalution = (ConstructedContext.acquired > 0)
    /\ other = "none"
    /\ wellContribs = 0
    /\ matrix_in = NoMatrix
    /\ last_solution = <<>>

\* A backend of one of the block sizes, built against either rocalution block
\* order, constructed with a verbosity and with maxit.
Init ==
    /\ block_size \in 1..MaxSessionBlockSize
    /\ BCSR_IND_BASE \in {0, 1}
    /\ verbosity \in {0, 1}
    /\ maxit = MaxIt
    /\ Constructed
    /\ NoSimulator
    /\ rt = NoRoundTrip

\* -------------------------------------------------------------- operations

\* initialize (lines 80-97): the members it sets, from the matrix it is given.
initializeScalarSize(m) ==
    [Nb |-> m.Nb, N |-> m.Nb, nnzb |-> m.nnzbs,
     nnz |-> m.nnzbs * block_size * block_size,
     h_x |-> [i \in 1..m.Nb |-> 0]]
initialize(m) ==
    [Nb |-> m.Nb, N |-> m.Nb * block_size, nnzb |-> m.nnzbs,
     nnz |-> m.nnzbs * block_size * block_size,
     h_x |-> [i \in 1..(m.Nb * block_size) |-> 0]]

\* ||v||_2 (Vec::Norm of line 202).
RECURSIVE SumSquares(_)
SumSquares(v) == IF v = <<>> THEN 0 ELSE Head(v) * Head(v) + SumSquares(Tail(v))
Norm(v) ==
    LET q == SumSquares(v)
        t == IntRoot(q, 2)
    IN IF t >= 0 THEN DFin(t, 1) ELSE [k |-> "fin", n |-> q, d |-> 1, r |-> 2]

\* Lines 162-164: the members after "if (initialized == false) initialize(matrix)".
SessionForEveryCall(m) == initialize(m)
SessionFor(m) ==
    IF initialized = FALSE THEN initialize(m)
    ELSE [Nb |-> Nb, N |-> N, nnzb |-> nnzb, nnz |-> nnz, h_x |-> h_x]

\* convert_matrix (lines 99-135) and solve_system read the caller's matrix
\* through matrix-> and assign to none of its arrays: after the conversion it
\* holds what it held.
CallerMatrixTransposedInPlace(m, tmp) == [m EXCEPT !.nnzValues = tmp]
CallerMatrix(m, tmp) == m

\* The wellContribs a caller passes (line 159): none or one additive term.
WellContribsSet == {0, 1}

\* solve_system, lines 162-170: initialize on the first call only, allocate the
\* three staging arrays with the session's sizes, convert_matrix.  When the
\* conversion reads or writes out of bounds the read values are g and the
\* process may stop there (crash).
solve_system_convert(m, rhs, w, g, crash) ==
    /\ LET s == SessionFor(m)
           oob == ConvertOutOfBounds(m, s.Nb, s.nnzb, block_size, BCSR_IND_BASE)
       IN /\ initialized' = TRUE
          /\ Nb' = s.Nb /\ N' = s.N /\ nnzb' = s.nnzb /\ nnz' = s.nnz
          /\ h_x' = s.h_x
          /\ tmp_rowpointers' = CopyArray(NewArray(s.Nb + 1), m.rowPointers, s.Nb + 1, g)
          /\ tmp_colindices' = CopyArray(NewArray(s.nnzb), m.colIndices, s.nnzb, g)
          /\ tmp_nnzvalues' =
                ConvertValues(NewArray(s.nnzb * block_size * block_size),
                              m.nnzValues, s.nnzb, block_size, BCSR_IND_BASE, g)
          /\ tmp_state' = "allocated"
          /\ ub' = ub \cup oob
          /\ pc' = IF crash THEN "crashed" ELSE "converted"
    /\ matrix' = CallerMatrix(m, tmp_nnzvalues') /\ b' = rhs
    /\ matrix_in' = m
    /\ wellContribs' = w
    /\ res' = ResUnassigned /\ ret' = "none" /\ x' = <<>>
    /\ calls' = calls + 1 /\ solves' = 0
    /\ time_per_it' = DUnset
    /\ UNCHANGED <<simVars, configVars, roc_solver, roc_prec, roc_mat, roc_rhs, roc_x,
                   norm_0, rt, lifeVars, last_solution>>

\* A caller enters solve_system with a matrix and a right-hand side of the
\* matrix's size, while no call is in progress.
solve_system_enter ==
    /\ alive
    /\ pc \in {"idle", "done"}
    /\ calls < MaxCalls
    /\ \E m \in InputMatrices(block_size) :
         LET faulty == ConvertOutOfBounds(m, SessionFor(m).Nb, SessionFor(m).nnzb,
                                         block_size, BCSR_IND_BASE) # {}
         IN \E rhs \in RhsSet(m.Nb * block_size),
               w \in WellContribsSet,
               g \in (IF faulty THEN Garbage ELSE {-1}),
               crash \in (IF faulty THEN BOOLEAN ELSE {FALSE}) :
                 solve_system_convert(m, rhs, w, g, crash)

\* Lines 178-181: SetDataPtrBCSR takes the three arrays over and sets the
\* pointers it was given to nullptr.
PointersAfterSetDataPtrKept == "allocated"
PointersAfterSetDataPtr == "null"

\* solve_system, lines 172-202: the staging arrays pass to roc_mat and the tmp_*
\* pointers become null; rhs copied, x zeroed; solver cleared, preconditioner
\* rebuilt; norm_0.
solve_system_setup ==
    /\ pc = "converted"
    /\ roc_mat' = [rowptr |-> tmp_rowpointers, colidx |-> tmp_colindices,
                   vals |-> tmp_nnzvalues, nnzb |-> nnzb, nrow |-> Nb,
                   ncol |-> Nb, bdim |-> block_size]
    /\ tmp_rowpointers' = <<>> /\ tmp_colindices' = <<>> /\ tmp_nnzvalues' = <<>>
    /\ tmp_state' = PointersAfterSetDataPtr
    /\ \E g \in (IF Len(b) < Nb * block_size THEN Garbage ELSE {-1}) :
          /\ roc_rhs' = [i \in 1..(Nb * block_size) |-> ReadAt(b, i - 1, g)]
          /\ norm_0' = Norm([i \in 1..(Nb * block_size) |-> ReadAt(b, i - 1, g)])
    /\ ub' = ub \cup (IF Len(b) < Nb * block_size THEN {"read b"} ELSE {})
                \cup (IF \E i \in 1..Len(tmp_nnzvalues) : tmp_nnzvalues[i] = Uninit
                      THEN {"uninitialized tmp_nnzvalues"} ELSE {})
                \cup (IF rocalution THEN {} ELSE {"rocalution used after stop_rocalution"})
    /\ roc_x' = [i \in 1..(Nb * block_size) |-> 0]
    /\ roc_solver' = SolverCleared
    /\ roc_prec' = roc_prec + 1
    /\ pc' = "solving"
    /\ UNCHANGED <<simVars, configVars, sessionVars, h_x, matrix, b, res, ret, x, calls,
                   solves, time_per_it, rt, lifeVars, wellContribs, matrix_in,
                   last_solution>>

\* The solver's stopping criteria, as roc_solver->Init sets them in line 66:
\* abs_tol 1e-15 (below every nonzero residual of the model), the relative
\* tolerance the backend is constructed with, divergence_tol 1e3, maxit.
Tolerance == DFin(1, 100)
DivergenceTol == DFin(1000, 1)
AbsTolReached(r) == r.k = "fin" /\ r.n = 0
RelTolReached(r, n0) == DLeq(DDiv(r, n0), Tolerance)
DivergenceReached(r, n0) == DLeq(DivergenceTol, DDiv(r, n0))

\* What roc_solver->Solve may leave behind: a status (lines 208-213) with an
\* iteration count of at most maxit and a final residual that fit it.  n0 is
\* the initial residual: the initial guess is zero, so it is norm(b).
SolverStatuses == {StatusNone, StatusAbsTol, StatusRelTol, StatusDivergence, StatusMaxIter}
Residuals == {DZero, DFin(1, 1000), DFin(2, 1), DFin(8000, 1), DNaN}
SolveOutcomes(n0) ==
    {o \in [status : SolverStatuses, iter : 0..maxit, residual : Residuals] :
        /\ o.status = StatusAbsTol => AbsTolReached(o.residual)
        /\ o.status = StatusRelTol => RelTolReached(o.residual, n0)
        /\ o.status = StatusDivergence => DivergenceReached(o.residual, n0)
        /\ o.status = StatusMaxIter => o.iter = maxit
        /\ o.status = StatusNone =>
              /\ ~AbsTolReached(o.residual)
              /\ ~RelTolReached(o.residual, n0)
              /\ ~DivergenceReached(o.residual, n0)}
Solution(tag, n) == [i \in 1..n |-> 10 * tag + i]

\* solve_system, line 206: the Krylov solve.
krylov_solve(o, tag) ==
    /\ pc = "solving"
    /\ o \in SolveOutcomes(norm_0)
    /\ roc_solver' = o
    /\ roc_x' = Solution(tag, Len(roc_x))
    /\ last_solution' = Solution(tag, Len(roc_x))
    /\ solves' = solves + 1
    /\ pc' = "solved"
    /\ UNCHANGED <<simVars, configVars, sessionVars, h_x, tmpVars, roc_prec, roc_mat,
                   roc_rhs, norm_0, matrix, b, res, ret, x, calls, ub,
                   time_per_it, rt, lifeVars, wellContribs, matrix_in>>

\* Wall time of the solve (t_solve.stop()).
ElapsedSet == {DFin(1, 1000)}

\* Line 219.
Converged12(st) == st = StatusRelTol \/ st = StatusAbsTol
Converged1(st) == st = StatusAbsTol
Converged(st) == st = StatusRelTol

\* Line 218: pow(res.reduction, 1.0 / res.iterations).
ConvRate(reduction, it) == DPow(reduction, DDiv(DOne, DFin(it, 1)))

\* Line 237.
ReturnStatusByOutcome(st) ==
    IF st = StatusRelTol THEN "GPU_SOLVER_SUCCESS" ELSE "GPU_SOLVER_UNKNOWN_ERROR"
ReturnStatus(st) == "GPU_SOLVER_SUCCESS"

\* Lines 215-219: the fields of res, assigned in this order.
FillResultNoRate(t) ==
    LET red == DDiv(roc_solver.residual, norm_0)
    IN [elapsed |-> t, iterations |-> roc_solver.iter, reduction |-> red,
        conv_rate |-> res.conv_rate,
        converged |-> Converged(roc_solver.status),
        assigned |-> ResFields \ {"conv_rate"}]
FillResult(t) ==
    LET red == DDiv(roc_solver.residual, norm_0)
    IN [elapsed |-> t, iterations |-> roc_solver.iter, reduction |-> red,
        conv_rate |-> ConvRate(red, roc_solver.iter),
        converged |-> Converged(roc_solver.status),
        assigned |-> ResFields]

\* solve_system, lines 215-237: fill res, copy the solution to h_x, log, return.
\* The locals roc_mat, roc_rhs, roc_x end with the call.
solve_system_result(t) ==
    /\ pc = "solved"
    /\ res' = FillResult(t)
    /\ h_x' = [i \in 1..Len(h_x) |-> IF i <= Len(roc_x) THEN roc_x[i] ELSE h_x[i]]
    /\ time_per_it' = IF verbosity >= 1
                      THEN DDiv(t, DFin(roc_solver.iter, 1)) ELSE DUnset
    /\ ret' = ReturnStatus(roc_solver.status)
    /\ roc_mat' = NoRocMat /\ roc_rhs' = <<>> /\ roc_x' = <<>> /\ norm_0' = DUnset
    /\ pc' = "done"
    /\ UNCHANGED <<simVars, configVars, sessionVars, tmpVars, roc_solver, roc_prec,
                   matrix, b, x, calls, solves, ub, rt, lifeVars, wellContribs,
                   matrix_in, last_solution>>

\* get_result (lines 137-152): copy h_x to the caller's x.
get_resultShort ==
    /\ alive
    /\ pc = "done"
    /\ x = <<>>
    /\ x' = [i \in 1..(Len(h_x) - 1) |-> h_x[i]]
    /\ UNCHANGED <<simVars, configVars, sessionVars, h_x, tmpVars, roc_solver, roc_prec,
                   roc_mat, roc_rhs, roc_x, norm_0, matrix, b, res, ret, pc,
                   calls, solves, ub, time_per_it, rt, lifeVars, wellContribs,
                   matrix_in, last_solution>>
get_result ==
    /\ alive
    /\ pc = "done"
    /\ x = <<>>
    /\ x' = h_x
    /\ UNCHANGED <<simVars, configVars, sessionVars, h_x, tmpVars, roc_solver, roc_prec,
                   roc_mat, roc_rhs, roc_x, norm_0, matrix, b, res, ret, pc,
                   calls, solves, ub, time_per_it, rt, lifeVars, wellContribs,
                   matrix_in, last_solution>>

\* The destructor (lines 69-78), run once for a constructed backend while no
\* call is in progress: roc_prec and roc_solver are released (given up, not
\* deleted), then stop_rocalution ends the library's context.
destroyNoStop ==
    /\ alive
    /\ pc \in {"idle", "done"}
    /\ ptrs' = [roc_solver |-> "null", roc_prec |-> "null"]
    /\ leaked' = leaked \cup {n \in DOMAIN ptrs : ptrs[n] = "owned"}
    /\ alive' = FALSE
    /\ UNCHANGED <<simVars, configVars, sessionVars, h_x, tmpVars, roc_solver, roc_prec,
                   roc_mat, roc_rhs, roc_x, norm_0, matrix, b, res, ret, x, pc,
                   calls, solves, ub, time_per_it, rt, wellContribs, matrix_in,
                   last_solution, ctx, rocalution, other>>
destroy ==
    /\ alive
    /\ pc \in {"idle", "done"}
    /\ ptrs' = [roc_solver |-> "null", roc_prec |-> "null"]
    /\ leaked' = leaked \cup {n \in DOMAIN ptrs : ptrs[n] = "owned"}
    /\ ctx' = [ctx EXCEPT !.released = @ + 1]
    /\ rocalution' = FALSE
    /\ alive' = FALSE
    /\ UNCHANGED <<simVars, configVars, sessionVars, h_x, tmpVars, roc_solver, roc_prec,
                   roc_mat, roc_rhs, roc_x, norm_0, matrix, b, res, ret, x, pc,
                   calls, solves, ub, time_per_it, rt, wellContribs, matrix_in,
                   last_solution, other>>

Next ==
    \/ solve_system_enter
    \/ solve_system_setup
    \/ \E o \in [status : SolverStatuses, iter : 0..maxit, residual : Residuals],
          tag \in 1..MaxSolTag :
         krylov_solve(o, tag)
    \/ \E t \in ElapsedSet : solve_system_result(t)
    \/ get_result
    \/ destroy

Spec == Init /\ [][Next]_vars

\* ------------------------------------------------- two backends, one process
\* init_rocalution and stop_rocalution take no backend argument: they start
\* and stop the one context of the process.  A second backend of the same
\* process is constructed and destroyed while this one lives.

\* The constructor of the second backend (line 59).
other_construct ==
    /\ other = "none"
    /\ other' = "alive"
    /\ rocalution' = TRUE
    /\ UNCHANGED <<simVars, configVars, sessionVars, h_x, tmpVars, roc_solver, roc_prec,
                   roc_mat, roc_rhs, roc_x, norm_0, matrix, b, res, ret, x, pc,
                   calls, solves, ub, time_per_it, rt, wellContribs, matrix_in,
                   last_solution, alive, ptrs, leaked, ctx>>

\* The destructor of the second backend (line 77).
other_destroy ==
    /\ other = "alive"
    /\ other' = "destroyed"
    /\ rocalution' = FALSE
    /\ UNCHANGED <<simVars, configVars, sessionVars, h_x, tmpVars, roc_solver, roc_prec,
                   roc_mat, roc_rhs, roc_x, norm_0, matrix, b, res, ret, x, pc,
                   calls, solves, ub, time_per_it, rt, wellContribs, matrix_in,
                   last_solution, alive, ptrs, leaked, ctx>>

InitSessions ==
    /\ block_size = MaxSessionBlockSize
    /\ BCSR_IND_BASE = 0
    /\ verbosity = 0
    /\ maxit = MaxIt
    /\ Constructed
    /\ NoSimulator
    /\ rt = NoRoundTrip

NextSessions == Next \/ other_construct \/ other_destroy

SpecSessions == InitSessions /\ [][NextSessions]_vars

\* ------------------------------------------------- conversion round trip
\* convert_matrix's block conversion applied to a values array and then to its
\* own result (converting column-major back to row-major is the same block
\* transposition), for every instantiated block size.

RtMatrix(vals, cnt) ==
    [Nb |-> cnt, nnzbs |-> cnt, rowPointers |-> [i \in 1..(cnt + 1) |-> i - 1],
     colIndices |-> [i \in 1..cnt |-> i - 1], nnzValues |-> vals]

InitRoundTrip ==
    /\ block_size \in 1..MaxBlockSize
    /\ BCSR_IND_BASE \in {0, 1}
    /\ verbosity = 0
    /\ maxit = MaxIt
    /\ Constructed
    /\ NoSimulator
    /\ \E cnt \in 1..MaxRtBlocks, seed \in 0..MaxSeed :
          rt = [stage |-> "input", bs |-> block_size, cnt |-> cnt,
                input |-> DiagMat(cnt, block_size, seed).nnzValues,
                mid |-> <<>>, back |-> <<>>, oob |-> {}]

RtOutOfBounds(vals) ==
    ConvertOutOfBounds(RtMatrix(vals, rt.cnt), rt.cnt, rt.cnt, rt.bs, BCSR_IND_BASE)
       \ {"read rowPointers", "read colIndices"}

rt_convert ==
    /\ rt.stage = "input"
    /\ \E g \in (IF RtOutOfBounds(rt.input) # {} THEN Garbage ELSE {-1}) :
          rt' = [rt EXCEPT !.stage = "mid",
                           !.mid = ConvertValues(NewArray(rt.cnt * rt.bs * rt.bs),
                                                 rt.input, rt.cnt, rt.bs,
                                                 BCSR_IND_BASE, g),
                           !.oob = RtOutOfBounds(rt.input)]
    /\ UNCHANGED <<simVars, configVars, sessionVars, h_x, tmpVars, roc_solver, roc_prec,
                   roc_mat, roc_rhs, roc_x, norm_0, matrix, b, res, ret, x, pc,
                   calls, solves, ub, time_per_it, lifeVars, wellContribs,
                   matrix_in, last_solution>>

rt_convert_back ==
    /\ rt.stage = "mid"
    /\ \E g \in (IF RtOutOfBounds(rt.mid) # {} THEN Garbage ELSE {-1}) :
          rt' = [rt EXCEPT !.stage = "back",
                           !.back = ConvertValues(NewArray(rt.cnt * rt.bs * rt.bs),
                                                  rt.mid, rt.cnt, rt.bs,
                                                  BCSR_IND_BASE, g),
                           !.oob = rt.oob \cup RtOutOfBounds(rt.mid)]
    /\ UNCHANGED <<simVars, configVars, sessionVars, h_x, tmpVars, roc_solver, roc_prec,
                   roc_mat, roc_rhs, roc_x, norm_0, matrix, b, res, ret, x, pc,
                   calls, solves, ub, time_per_it, lifeVars, wellContribs,
                   matrix_in, last_solution>>

NextRoundTrip == rt_convert \/ rt_convert_back

SpecRoundTrip == InitRoundTrip /\ [][NextRoundTrip]_vars

\* ------------------------------------------ SimulatorFullyImplicitBlackoil
\* run(), init(), runStep() and the tuningUpdater of
\* SimulatorFullyImplicitBlackoil.hpp, on a schedule of a few report steps.

\* The exit statuses an action keyword may set (line 324).
ExitCodes == {1, 2}

\* timer.done() (line 206) and timer.initialStep() (line 341).
TimerDone(t) == t.currentStepNum >= t.numSteps
InitialStep(t) == t.currentStepNum = 0

\* checkRunningAsReservoirCouplingMaster (lines 220-245): the scan of the
\* report steps from report_step on; rc[report_step + 1] is the rescoup of
\* report step report_step.
RECURSIVE ScanRescoup(_, _)
ScanRescoup(rc, report_step) ==
    IF ~(report_step < Len(rc)) THEN "false"
    ELSE LET slave_count == rc[report_step + 1].slave_count
             master_group_count == rc[report_step + 1].master_group_count
         IN IF slave_count > 0 /\ master_group_count > 0 THEN "true"
            ELSE IF slave_count > 0 /\ master_group_count = 0 THEN "throw"
            ELSE IF slave_count = 0 /\ master_group_count > 0 THEN "throw"
            ELSE ScanRescoup(rc, report_step + 1)
checkRunningAsReservoirCouplingMasterAnyStep(rc) ==
    IF \E i \in 1..Len(rc) : rc[i].slave_count > 0 /\ rc[i].master_group_count > 0
    THEN "true"
    ELSE IF \E i \in 1..Len(rc) : rc[i].slave_count > 0 \/ rc[i].master_group_count > 0
    THEN "throw"
    ELSE "false"
checkRunningAsReservoirCouplingMaster(rc) == ScanRescoup(rc, 0)

\* init (lines 252-275): slave mode, or what the scan of the schedule says.
CouplingMode(slave_mode, rc) ==
    IF slave_mode THEN "slave"
    ELSE LET master_mode == checkRunningAsReservoirCouplingMaster(rc)
         IN IF master_mode = "throw" THEN "threw"
            ELSE IF master_mode = "true" THEN "master"
            ELSE "none"

\* adaptiveTimeStepping_->updateNEXTSTEP (lines 407, 436) and updateTUNING
\* (line 399): a positive max_next_tstep becomes the suggested next step.
updateNEXTSTEP(ats, max_next_tstep) ==
    IF max_next_tstep > 0 THEN [ats EXCEPT !.suggestedNextStep = max_next_tstep]
    ELSE ats
updateTUNING(ats, max_next_tstep) == updateNEXTSTEP(ats, max_next_tstep)

\* Line 393: schedule.clear_event(TUNING_CHANGE, reportStep).
clear_eventKept(sch, reportStep) == sch
clear_event(sch, reportStep) == [sch EXCEPT !.events[reportStep + 1] = FALSE]

\* The tuningUpdater lambda (lines 383-441) called with dt in report step
\* reportStep; shorten: wcycle.nextTimeStep asks for the shorter step 1 instead
\* of dt.  The result, the schedule and the time stepper it leaves, and what
\* the call saw.
tuningUpdater(sch, ats, reportStep, dt, shorten) ==
    LET hasEvent == sch.events[reportStep + 1]
        sch1 == IF hasEvent THEN clear_event(sch, reportStep) ELSE sch
        max_next_tstep == sch1.max_next_tstep
        ats1 == IF ~hasEvent THEN ats
                ELSE IF params.enableTuning THEN updateTUNING(ats, max_next_tstep)
                ELSE updateNEXTSTEP(ats, max_next_tstep)
        dt1 == IF ~hasEvent THEN dt
               ELSE IF params.enableTuning THEN ats1.suggestedNextStep
               ELSE max_next_tstep
        result == IF hasEvent THEN max_next_tstep > 0 ELSE FALSE
        wcycle_time_step == IF shorten THEN 1 ELSE dt1
        call == [hasEvent |-> hasEvent, dt |-> dt1, wcycle |-> sch1.wcycle,
                 wcycle_time_step |-> wcycle_time_step]
    IN IF ~sch1.wcycle
       THEN [result |-> result, schedule |-> sch1, ats |-> ats1, call |-> call]
       ELSE IF dt1 # wcycle_time_step
       THEN [result |-> TRUE, schedule |-> sch1,
             ats |-> updateNEXTSTEP(ats1, wcycle_time_step), call |-> call]
       ELSE [result |-> result, schedule |-> sch1, ats |-> ats1, call |-> call]

\* One tuningUpdater call, recorded.
Recorded(u) == [hasEvent |-> u.call.hasEvent, dt |-> u.call.dt,
                wcycle |-> u.call.wcycle,
                wcycle_time_step |-> u.call.wcycle_time_step,
                result |-> u.result]

\* Lines 208-209: run() leaves the loop when runStep returned false.
AfterRunStepIgnored(continue_looping) == "loop"
AfterRunStep(continue_looping) == IF continue_looping THEN "loop" ELSE "stopped"

\* Lines 500-509: ++timer, then serializer_.save(timer).
SaveThenIncrement(t, e) ==
    [timer |-> [t EXCEPT !.currentStepNum = @ + 1],
     effects |-> [e EXCEPT !.increments = @ + 1,
                           !.saves = Append(@, t.currentStepNum)]]
IncrementThenSave(t, e) ==
    [timer |-> [t EXCEPT !.currentStepNum = @ + 1],
     effects |-> [e EXCEPT !.increments = @ + 1,
                           !.saves = Append(@, t.currentStepNum + 1)]]

\* The time stepper init creates (lines 288-307).
CreatedTimeStepper(max_next_tstep) ==
    [exists |-> TRUE,
     suggestedNextStep |-> IF max_next_tstep > 0 THEN max_next_tstep ELSE 3]

\* run(), lines 195-204: init decides the coupling mode (and throws on an
\* inconsistent schedule), creates the time stepper when adaptive time
\* stepping is enabled.
run_init ==
    /\ simpc = "constructed"
    /\ LET mode == CouplingMode(params.slave, schedule.rescoup)
       IN /\ coupling' = mode
          /\ simpc' = IF mode = "threw" THEN "threw" ELSE "loop"
          /\ adaptiveTimeStepping_' =
                IF mode # "threw" /\ params.enableAdaptive
                THEN CreatedTimeStepper(schedule.max_next_tstep)
                ELSE adaptiveTimeStepping_
          /\ runLog' = IF mode = "threw" THEN runLog ELSE Append(runLog, "init")
    /\ UNCHANGED <<backendVars, timer, schedule, params, report_, solver_,
                   serializer_, effects, entry, updater>>

\* run(), lines 206-207: the timer is not done, writeReports.
run_writeReports ==
    /\ simpc = "loop"
    /\ ~TimerDone(timer)
    /\ Len(runLog) < MaxRunLog
    /\ runLog' = Append(runLog, "writeReports")
    /\ simpc' = "reported"
    /\ UNCHANGED <<backendVars, timer, schedule, params, report_, solver_,
                   adaptiveTimeStepping_, serializer_, coupling, effects, entry,
                   updater>>

\* runStep, lines 320-326: the schedule has an exit status; it is recorded and
\* runStep returns false.
runStep_exit ==
    /\ simpc = "reported"
    /\ schedule.exitStatus # NoExit
    /\ entry' = [call |-> entry.call + 1, timer |-> timer, effects |-> effects,
                 exitStatus |-> schedule.exitStatus]
    /\ report_' = [report_ EXCEPT !.exit_status = schedule.exitStatus]
    /\ runLog' = Append(runLog, "runStep:false")
    /\ simpc' = AfterRunStep(FALSE)
    /\ UNCHANGED <<backendVars, timer, schedule, params, solver_,
                   adaptiveTimeStepping_, serializer_, coupling, effects, updater>>

\* runStep, lines 328-444: no exit status.  The timer is loaded when the
\* serializer has a step to load, the initial state is written at the initial
\* step, the solver is created when there is none, the episode starts, the
\* state is loaded, and with adaptive time stepping the tuningUpdater is
\* called once.
runStep_begin ==
    /\ simpc = "reported"
    /\ schedule.exitStatus = NoExit
    /\ LET shouldLoad == serializer_.loadStep > -1
           t == IF shouldLoad
                THEN [timer EXCEPT !.currentStepNum = serializer_.loadStep]
                ELSE timer
           call == entry.call + 1
       IN /\ entry' = [call |-> call, timer |-> timer, effects |-> effects,
                       exitStatus |-> schedule.exitStatus]
          /\ timer' = t
          /\ effects' = [effects EXCEPT
                            !.outputs = IF InitialStep(t) THEN @ + 1 ELSE @,
                            !.episodes = @ + 1]
          /\ solver_' = IF solver_ = NoSolver THEN call ELSE solver_
          /\ serializer_' = IF shouldLoad THEN [loadStep |-> -1] ELSE serializer_
          /\ IF adaptiveTimeStepping_.exists
             THEN \E shorten \in BOOLEAN :
                    LET u == tuningUpdater(schedule, adaptiveTimeStepping_,
                                           t.currentStepNum,
                                           adaptiveTimeStepping_.suggestedNextStep,
                                           shorten)
                    IN /\ schedule' = u.schedule
                       /\ adaptiveTimeStepping_' = u.ats
                       /\ updater' = <<Recorded(u)>>
             ELSE /\ updater' = <<>>
                  /\ UNCHANGED <<schedule, adaptiveTimeStepping_>>
    /\ simpc' = "stepping"
    /\ UNCHANGED <<backendVars, params, report_, coupling, runLog>>

\* Line 461: one sub step of adaptiveTimeStepping_->step, which calls the
\* tuningUpdater; the sub step may be the last of the report step, and an
\* action keyword may trigger EXIT (exit: the status it sets, or NoExit).
adaptive_substep(shorten, last, exit) ==
    /\ simpc = "stepping"
    /\ adaptiveTimeStepping_.exists
    /\ last \/ Len(updater) < MaxSubSteps
    /\ LET u == tuningUpdater(schedule, adaptiveTimeStepping_,
                              timer.currentStepNum,
                              adaptiveTimeStepping_.suggestedNextStep, shorten)
       IN /\ schedule' = [u.schedule EXCEPT
                            !.exitStatus = IF @ = NoExit THEN exit ELSE @]
          /\ adaptiveTimeStepping_' = u.ats
          /\ updater' = Append(updater, Recorded(u))
    /\ simpc' = IF last THEN "stepped" ELSE "stepping"
    /\ UNCHANGED <<backendVars, timer, params, report_, solver_, serializer_,
                   coupling, runLog, effects, entry>>

\* Line 467: without adaptive time stepping the solver takes the whole report
\* step.
solver_step(exit) ==
    /\ simpc = "stepping"
    /\ ~adaptiveTimeStepping_.exists
    /\ schedule' = [schedule EXCEPT !.exitStatus = IF @ = NoExit THEN exit ELSE @]
    /\ simpc' = "stepped"
    /\ UNCHANGED <<backendVars, timer, params, report_, solver_,
                   adaptiveTimeStepping_, serializer_, coupling, runLog, effects,
                   entry, updater>>

\* runStep, lines 476-511: the state is written, the timer incremented, the
\* serializer saves, runStep returns true.
runStep_end ==
    /\ simpc = "stepped"
    /\ LET r == IncrementThenSave(timer, [effects EXCEPT !.outputs = @ + 1])
       IN /\ timer' = r.timer
          /\ effects' = r.effects
    /\ runLog' = Append(runLog, "runStep:true")
    /\ simpc' = AfterRunStep(TRUE)
    /\ UNCHANGED <<backendVars, schedule, params, report_, solver_,
                   adaptiveTimeStepping_, serializer_, coupling, entry, updater>>

\* run(), lines 211-212 and finalize (lines 514-531): after the loop,
\* writeReports once more and finalize.
run_finish ==
    /\ \/ simpc = "stopped"
       \/ simpc = "loop" /\ TimerDone(timer)
    /\ runLog' = runLog \o <<"writeReports", "finalize">>
    /\ report_' = [report_ EXCEPT !.converged = TRUE]
    /\ simpc' = "finalized"
    /\ UNCHANGED <<backendVars, timer, schedule, params, solver_,
                   adaptiveTimeStepping_, serializer_, coupling, effects, entry,
                   updater>>

\* The rescoup of a report step: the SLAVES and GRUPMAST counts.
Rescoup(s, m) == [slave_count |-> s, master_group_count |-> m]
RescoupSchedules(n) == [1..n -> {Rescoup(s, m) : s \in {0, 1}, m \in {0, 1}}]

\* The schedules of n report steps the simulator runs: a TUNING_CHANGE event
\* or none per report step, well cycling or none, max_next_tstep, and no
\* coupling, a master's schedule or an inconsistent one.
Schedules(n) ==
    [events : [1..n -> BOOLEAN], wcycle : BOOLEAN, max_next_tstep : {0, 2},
     exitStatus : {NoExit},
     rescoup : {[i \in 1..n |-> Rescoup(0, 0)],
                [i \in 1..n |-> IF i = 1 THEN Rescoup(1, 1) ELSE Rescoup(0, 0)],
                [i \in 1..n |-> IF i = n THEN Rescoup(1, 0) ELSE Rescoup(0, 0)]}]

\* The backend plays no part in the simulator's specifications.
BackendIdle ==
    /\ block_size = MaxSessionBlockSize
    /\ BCSR_IND_BASE = 0
    /\ verbosity = 0
    /\ maxit = MaxIt
    /\ Constructed
    /\ rt = NoRoundTrip

\* A simulator about to run a schedule of 1..MaxSteps report steps, from the
\* start or from a later step, with or without a step to load.
InitSimulator ==
    /\ BackendIdle
    /\ simpc = "constructed"
    /\ \E n \in 1..MaxSteps :
          /\ \E first \in 0..n : timer = [currentStepNum |-> first, numSteps |-> n]
          /\ schedule \in Schedules(n)
          /\ serializer_ \in [loadStep : {-1} \cup 1..(n - 1)]
    /\ params \in [enableAdaptive : BOOLEAN, enableTuning : BOOLEAN,
                   slave : {FALSE}]
    /\ report_ = ReportCleared
    /\ solver_ = NoSolver
    /\ adaptiveTimeStepping_ = NoTimeStepper
    /\ coupling = "unset"
    /\ runLog = <<>>
    /\ effects = NoEffects
    /\ entry = NoEntry
    /\ updater = <<>>

NextSimulator ==
    \/ run_init
    \/ run_writeReports
    \/ runStep_exit
    \/ runStep_begin
    \/ \E shorten \in BOOLEAN, last \in BOOLEAN, exit \in {NoExit} \cup ExitCodes :
         adaptive_substep(shorten, last, exit)
    \/ \E exit \in {NoExit} \cup ExitCodes : solver_step(exit)
    \/ runStep_end
    \/ run_finish

\* run() is one sequential program: it takes its next step whenever it has one.
SpecSimulator == InitSimulator /\ [][NextSimulator]_vars /\ WF_vars(NextSimulator)

\* init's coupling decision on every schedule of up to MaxCouplingSteps report
\* steps, in slave mode or not.
InitCoupling ==
    /\ BackendIdle
    /\ simpc = "constructed"
    /\ \E n \in 0..MaxCouplingSteps :
          /\ timer = [currentStepNum |-> 0, numSteps |-> n]
          /\ \E rc \in RescoupSchedules(n) :
                schedule = [events |-> [i \in 1..n |-> FALSE], wcycle |-> FALSE,
                            max_next_tstep |-> 0, exitStatus |-> NoExit,
                            rescoup |-> rc]
    /\ params \in [enableAdaptive : {FALSE}, enableTuning : {FALSE}, slave : BOOLEAN]
    /\ report_ = ReportCleared
    /\ solver_ = NoSolver
    /\ adaptiveTimeStepping_ = NoTimeStepper
    /\ serializer_ = [loadStep |-> -1]
    /\ coupling = "unset"
    /\ runLog = <<>>
    /\ effects = NoEffects
    /\ entry = NoEntry
    /\ updater = <<>>

NextCoupling == run_init

SpecCoupling == InitCoupling /\ [][NextCoupling]_vars

\* ------------------------------------------------------------------ claims

\* The staging values of the call in progress: in the tmp_nnzvalues array until
\* it passes to roc_mat, then in roc_mat.
Staged == pc \in {"converted", "solving", "solved"}
StagedValues == IF pc = "converted" THEN tmp_nnzvalues ELSE roc_mat.vals
StagedRowPointers == IF pc = "converted" THEN tmp_rowpointers ELSE roc_mat.rowptr
StagedColIndices == IF pc = "converted" THEN tmp_colindices ELSE roc_mat.colidx

\* Every access so far stayed inside its array and the backend was handed no
\* indeterminate value.
WellDefined == ub = {}

\* The transpose of a 3x3 block: offset 3*r + c goes to offset 3*c + r.
Transposed3(k) == 3 * (k % 3) + (k \div 3)

\* C1: with BCSR_IND_BASE == 0 and 3x3 blocks, every block i < nnzb that the
\* input matrix holds is staged transposed: the staged value at in-block offset
\* k is the input value at in-block offset P[k], P = (0,3,6,1,4,7,2,5,8), and
\* every input entry of the block is in the staged block exactly once.
C1_BlockTransposed ==
    (Staged /\ BCSR_IND_BASE = 0 /\ block_size = 3) =>
        \A i \in 0..(nnzb - 1) :
            i < matrix.nnzbs =>
                /\ \A k \in 0..8 :
                      StagedValues[9 * i + k + 1]
                         = matrix.nnzValues[9 * i + Transposed3(k) + 1]
                /\ \A j \in 0..8 :
                      Cardinality({k \in 0..8 :
                          StagedValues[9 * i + k + 1] = matrix.nnzValues[9 * i + j + 1]}) = 1

C1_Witness ==
    /\ pc = "converted" /\ BCSR_IND_BASE = 0 /\ block_size = 3
    /\ nnzb = 3 /\ matrix.nnzbs = 3
    /\ tmp_nnzvalues[9 + 2] = matrix.nnzValues[9 + 4]
    /\ tmp_nnzvalues[9 + 2] # matrix.nnzValues[9 + 2]

\* C2: for block sizes 1, 2 and 3, converting row-major blocks to column-major
\* and converting the result back gives the original values, and no access
\* falls outside the nnzb*blockSize^2 values.
C2_RoundTrip ==
    (rt.stage = "back" /\ BCSR_IND_BASE = 0 /\ block_size \in {1, 2, 3}) =>
        /\ rt.back = rt.input
        /\ rt.oob = {}

\* C3: the staged row pointers and column indices are the input's, entry by
\* entry in the same order: for every index the loops of lines 105-110 cover
\* and the input array holds, and as whole arrays when the input matrix has the
\* session's dimensions.
C3_StructureVerbatim ==
    Staged =>
        /\ Len(StagedRowPointers) = Nb + 1
        /\ Len(StagedColIndices) = nnzb
        /\ \A i \in 1..(Nb + 1) :
              i <= Len(matrix.rowPointers) => StagedRowPointers[i] = matrix.rowPointers[i]
        /\ \A i \in 1..nnzb :
              i <= Len(matrix.colIndices) => StagedColIndices[i] = matrix.colIndices[i]
        /\ (Len(matrix.rowPointers) = Nb + 1 /\ Len(matrix.colIndices) = nnzb) =>
              /\ StagedRowPointers = matrix.rowPointers
              /\ StagedColIndices = matrix.colIndices

C3_Witness ==
    /\ pc = "converted" /\ calls = 2
    /\ matrix = ArrowMat(2, block_size, 0)
    /\ tmp_rowpointers = <<0, 2, 3>>
    /\ tmp_colindices = <<0, 1, 1>>

\* C4: at every point of a solve call after its entry, the session's Nb, nnzb, N
\* and the size of h_x are those of the call's matrix (a call with other
\* dimensions than the previous one re-initializes).  Stated for the
\* runs without undefined behaviour, on well-formed matrices.
C4_ReinitializedOnChange ==
    (pc \in {"converted", "solving", "solved", "done"} /\ WellDefined
                                                       /\ WellFormed(matrix)) =>
        /\ Nb = matrix.Nb
        /\ nnzb = matrix.nnzbs
        /\ N = matrix.Nb * block_size
        /\ Len(h_x) = matrix.Nb * block_size

\* C5: a malformed matrix is never handed to the backend: the call stops before
\* SetDataPtrBCSR.  Stated for the runs without undefined behaviour.
C5_MalformedRejected ==
    (pc \in {"solving", "solved", "done"} /\ WellDefined) => WellFormed(matrix)

\* C6: converged is true only when the solver's status is "relative tolerance
\* reached"; every other status gives converged = false.
C6_ConvergedOnlyRelTol ==
    pc = "done" =>
        /\ res.converged => roc_solver.status = StatusRelTol
        /\ roc_solver.status \in {StatusNone, StatusAbsTol, StatusDivergence, StatusMaxIter}
              => res.converged = FALSE

C6_Witness ==
    /\ pc = "done" /\ roc_solver.status = StatusMaxIter
    /\ res.iterations = maxit /\ res.converged = FALSE

\* C7 as stated: a solve that stops on the relative or on the absolute
\* tolerance reports converged = true with status SUCCESS.  Stated for the
\* runs without undefined behaviour.
C7_RelOrAbsConverged ==
    (pc = "done" /\ WellDefined /\ roc_solver.status \in {StatusRelTol, StatusAbsTol}) =>
        /\ res.converged = TRUE
        /\ ret = "GPU_SOLVER_SUCCESS"

\* C7 amended: a solve that stops on the relative tolerance reports converged =
\* true with status SUCCESS; one that stops on the absolute tolerance reports
\* converged = false, also with status SUCCESS.
C7_RelConvergedAbsNot ==
    pc = "done" =>
        /\ roc_solver.status = StatusRelTol
              => (res.converged = TRUE /\ ret = "GPU_SOLVER_SUCCESS")
        /\ roc_solver.status = StatusAbsTol
              => (res.converged = FALSE /\ ret = "GPU_SOLVER_SUCCESS")

C7_Witness ==
    /\ pc = "done" /\ roc_solver.status = StatusRelTol
    /\ res.converged = TRUE /\ ret = "GPU_SOLVER_SUCCESS"

\* A block row without a block on the diagonal.
ZeroDiagonal(m) ==
    /\ WellFormed(m)
    /\ \E r \in 0..(m.Nb - 1) :
          \A j \in (m.rowPointers[r + 1] + 1)..m.rowPointers[r + 2] : m.colIndices[j] # r

\* The Krylov iteration ended without reaching a tolerance.
Defeated == roc_solver.status \in {StatusNone, StatusDivergence, StatusMaxIter}

C9_NoRetryResultPopulated ==
    /\ pc \in {"solved", "done"} => solves = 1
    /\ (pc = "done" /\ roc_solver.status \in {StatusDivergence, StatusMaxIter}) =>
          /\ ret = "GPU_SOLVER_SUCCESS"
          /\ res.assigned = ResFields
          /\ res.iterations = roc_solver.iter
          /\ res.elapsed.k = "fin"
          /\ res.reduction.k # "unset"
          /\ res.conv_rate.k # "unset"
          /\ res.converged = FALSE

C9_Witness ==
    /\ pc = "done" /\ roc_solver.status = StatusDivergence /\ solves = 1
    /\ res.assigned = ResFields /\ res.converged = FALSE /\ calls = 2

\* C10: a solve that ends with iterations == 0 reports conv_rate = 1.0, and the
\* logged time per iteration is a finite number.  Stated for the runs
\* without undefined behaviour.
C10_ZeroIterationsGuarded ==
    (pc = "done" /\ WellDefined /\ res.iterations = 0) =>
        /\ res.conv_rate = DOne
        /\ verbosity >= 1 => time_per_it.k = "fin"

\* The session's lifecycle state: Uninitialized, Initialized, Disposed.
SessionState ==
    IF ~alive THEN "Disposed"
    ELSE IF initialized THEN "Initialized" ELSE "Uninitialized"

C12_AcquiredOnInitialize ==
    /\ SessionState = "Uninitialized" => ctx.acquired = 0
    /\ SessionState = "Initialized" => ctx = [acquired |-> 1, released |-> 0]
    /\ SessionState = "Disposed" => ctx.released = ctx.acquired

\* C12 amended: the context is acquired at construction, is held through every
\* solve outcome, and is released exactly once, by the destructor: a live
\* session has called init_rocalution once and stop_rocalution never, a
\* destroyed one each once.
C12_AcquiredAtConstruction ==
    /\ alive => (ctx = [acquired |-> 1, released |-> 0] /\ rocalution)
    /\ ~alive => (ctx = [acquired |-> 1, released |-> 1] /\ ~rocalution)

C12_Witness ==
    /\ ~alive /\ pc = "done" /\ initialized
    /\ roc_solver.status = StatusDivergence
    /\ ctx = [acquired |-> 1, released |-> 1]

\* C13: what the second backend does changes nothing of this backend: the
\* context this backend acquired is there as long as the backend lives, and
\* no solve of it runs on a stopped library.
C13_SessionsIndependent ==
    /\ alive => rocalution
    /\ "rocalution used after stop_rocalution" \notin ub

\* The assembled matrix values in the backend's block order, without any
\* contribution.
AssembledValues ==
    ConvertValues(NewArray(nnzb * block_size * block_size), matrix.nnzValues,
                  nnzb, block_size, BCSR_IND_BASE, -1)

\* C14: when the caller supplies well contributions, the system the Krylov
\* solve starts on is the assembled system plus the contributions, so its
\* matrix values or its right-hand side differ from the assembled ones.  Stated
\* for the runs without undefined behaviour.
C14_WellContribsAdded ==
    (pc = "solving" /\ WellDefined /\ wellContribs # 0) =>
        (roc_rhs # b \/ roc_mat.vals # AssembledValues)

\* C15: from the entry of a solve_system call on, through the conversion, the
\* solve, get_result and the teardown, the caller's matrix holds the row
\* pointers, column indices and values it held when the call began.
C15_MatrixUnchanged ==
    calls > 0 =>
        /\ matrix.rowPointers = matrix_in.rowPointers
        /\ matrix.colIndices = matrix_in.colIndices
        /\ matrix.nnzValues = matrix_in.nnzValues
        /\ matrix = matrix_in

C15_Witness ==
    /\ pc = "done" /\ x # <<>> /\ BCSR_IND_BASE = 0 /\ block_size = 3
    /\ matrix_in = ArrowMat(2, 3, 0)
    /\ matrix.nnzValues = matrix_in.nnzValues

\* C16: the first solve_system call on a session initializes it from the
\* incoming matrix before the staging arrays are sized: Nb, nnzb, N =
\* Nb*block_size, nnz = nnzb*block_size^2 and an h_x of N entries are the
\* matrix's, the staging arrays have Nb+1, nnzb and nnz entries, and the
\* session is initialized from the conversion on and when the call returns.
C16_FirstCallInitializes ==
    /\ calls = 0 => SessionState # "Initialized"
    /\ calls > 0 => initialized
    /\ calls = 1 =>
          /\ Nb = matrix.Nb
          /\ nnzb = matrix.nnzbs
          /\ N = matrix.Nb * block_size
          /\ nnz = matrix.nnzbs * block_size * block_size
          /\ Len(h_x) = N
    /\ (calls = 1 /\ pc = "converted") =>
          /\ Len(tmp_rowpointers) = matrix.Nb + 1
          /\ Len(tmp_colindices) = matrix.nnzbs
          /\ Len(tmp_nnzvalues) = matrix.nnzbs * block_size * block_size

C16_Witness ==
    /\ calls = 1 /\ pc = "done" /\ initialized /\ block_size = 2
    /\ matrix = ArrowMat(2, 2, 0)
    /\ Nb = 2 /\ nnzb = 3 /\ N = 4 /\ nnz = 12 /\ Len(h_x) = 4

\* The phases of a call by the position in solve_system: "converted" is
\* Converting, "solving" and "solved" are Solving, "done" is Done; a new call
\* starts from Idle or from Done.
PhaseOrder ==
    {<<"idle", "converted">>, <<"converted", "solving">>, <<"solving", "solved">>,
     <<"solved", "done">>, <<"done", "converted">>}

\* The terminal outcome of a finished call, by the solver's status.
Outcome ==
    CASE roc_solver.status \in {StatusRelTol, StatusAbsTol} -> "success"
      [] roc_solver.status = StatusDivergence -> "diverged"
      [] roc_solver.status = StatusMaxIter -> "maxIterReached"
      [] OTHER -> "numericalFault"

\* C17: a call moves only forward through Idle, Converting, Solving, Done: no
\* step leaves a call before Done or goes back, and a finished call has one of
\* the four outcomes.
C17_PhasesInOrder ==
    /\ [](pc = "done" => Outcome \in {"success", "diverged", "maxIterReached",
                                      "numericalFault"})
    /\ [][pc' # pc => <<pc, pc'>> \in PhaseOrder]_vars

\* C18: the system a solve starts on is the one a freshly initialized session
\* would start on for the same matrix and right-hand side: the matrix's own
\* dimensions, structure and converted values, the right-hand side b, a zero
\* initial guess, a cleared solver and a preconditioner built in this call;
\* nothing of it comes from an earlier call.  Stated for the runs without
\* undefined behaviour, on well-formed matrices.
C18_NoStateCarriedOver ==
    (pc = "solving" /\ WellDefined /\ WellFormed(matrix)) =>
        /\ roc_mat.nrow = matrix.Nb /\ roc_mat.ncol = matrix.Nb
        /\ roc_mat.nnzb = matrix.nnzbs
        /\ roc_mat.rowptr = matrix.rowPointers
        /\ roc_mat.colidx = matrix.colIndices
        /\ roc_mat.vals =
              ConvertValues(NewArray(matrix.nnzbs * block_size * block_size),
                            matrix.nnzValues, matrix.nnzbs, block_size,
                            BCSR_IND_BASE, -1)
        /\ roc_rhs = b
        /\ roc_x = [i \in 1..(matrix.Nb * block_size) |-> 0]
        /\ roc_solver = SolverCleared
        /\ roc_prec = calls

\* The identity in blocks of size 1: one unit block per row, on the diagonal.
IsIdentity(m) ==
    /\ WellFormed(m)
    /\ m.nnzbs = m.Nb
    /\ \A i \in 1..m.Nb :
          m.rowPointers[i] = i - 1 /\ m.colIndices[i] = i - 1 /\ m.nnzValues[i] = 1

\* C19: a first solve of the identity with blockSize = 1 starts the solver on
\* the identity and on b without undefined behaviour, and ends converged after
\* at most one iteration with the solution equal to b.
C19_IdentitySolvedExactly ==
    (block_size = 1 /\ calls = 1 /\ IsIdentity(matrix)) =>
        /\ pc \in {"solving", "solved"} =>
              /\ WellDefined
              /\ roc_mat.vals = matrix.nnzValues
              /\ roc_rhs = b
        /\ pc = "done" =>
              /\ res.converged
              /\ res.iterations <= 1
              /\ h_x = b

\* C20: after solve_system and get_result(x), exactly N = Nb*block_size
\* entries of x are written and they are, entry by entry, the solution vector
\* the most recent Solve left in roc_x.
C20_ResultTransferred ==
    (pc = "done" /\ x # <<>>) =>
        /\ N = Nb * block_size
        /\ Len(x) = N
        /\ Len(last_solution) = N
        /\ \A i \in 1..N : x[i] = last_solution[i]

C20_Witness ==
    /\ pc = "done" /\ block_size = 2 /\ Nb = 2 /\ N = 4
    /\ x = Solution(1, 4) /\ last_solution = x

\* C22: for both block orders of the backend, after convert_matrix every one of
\* the nnzb*block_size^2 entries of the staging values handed to the backend
\* has been written with a value of the input matrix, and with BCSR_IND_BASE
\* == 1 (row-major expected) the staging values are the input values
\* themselves.
C22_EveryEntryWritten ==
    (pc = "converted" /\ calls = 1 /\ WellDefined /\ WellFormed(matrix)) =>
        /\ Len(tmp_nnzvalues) = nnzb * block_size * block_size
        /\ \A i \in 1..Len(tmp_nnzvalues) :
              /\ tmp_nnzvalues[i] # Uninit
              /\ \E j \in 1..Len(matrix.nnzValues) :
                    tmp_nnzvalues[i] = matrix.nnzValues[j]
        /\ BCSR_IND_BASE = 1 => tmp_nnzvalues = matrix.nnzValues

\* C23: for every instantiated block size and every block count, convert_matrix
\* reads the input values and writes the staging values only at indices in
\* [0, nnzb*block_size^2), and every index of that range is written exactly
\* once.
C23_IndicesInRangeCoveredOnce ==
    (rt.stage = "mid" /\ BCSR_IND_BASE = 0) =>
        /\ rt.oob = {}
        /\ \A idx \in 0..(rt.cnt * rt.bs * rt.bs - 1) :
              Cardinality(WrittenBy(idx, rt.cnt, rt.bs)) = 1

\* C24: a solve_system call allocates its three staging arrays with the
\* session's sizes while the tmp_* pointers are null, and hands them to roc_mat
\* before the solve, which leaves the pointers null: between calls and from the
\* solve on the session holds no staging array, and the backend matrix holds
\* the three arrays of this call.
C24_StagingOwnership ==
    /\ pc \in {"idle", "solving", "solved", "done"} =>
          /\ tmp_state = "null"
          /\ tmp_rowpointers = <<>> /\ tmp_colindices = <<>> /\ tmp_nnzvalues = <<>>
    /\ pc = "converted" =>
          /\ tmp_state = "allocated"
          /\ Len(tmp_rowpointers) = Nb + 1
          /\ Len(tmp_colindices) = nnzb
          /\ Len(tmp_nnzvalues) = nnzb * block_size * block_size
    /\ pc \in {"solving", "solved"} =>
          /\ Len(roc_mat.rowptr) = Nb + 1
          /\ Len(roc_mat.colidx) = nnzb
          /\ Len(roc_mat.vals) = nnzb * block_size * block_size

C24_Witness ==
    /\ calls = 2 /\ pc = "solving" /\ tmp_state = "null"
    /\ Len(roc_mat.rowptr) = 2

\* C25: initialized is false after construction, true from the first
\* solve_system call on and never false again; once it is true, Nb, nnzb, N
\* and the size of h_x never change, whatever matrix a later call passes.
C25_InitializedMonotonic ==
    /\ [](initialized <=> calls > 0)
    /\ [][initialized =>
             /\ initialized'
             /\ Nb' = Nb /\ nnzb' = nnzb /\ N' = N
             /\ Len(h_x') = Len(h_x)]_vars

C25_Witness ==
    /\ calls = 2 /\ initialized
    /\ matrix.Nb = 2 /\ Nb = 1 /\ nnzb = 1 /\ N = block_size /\ Len(h_x) = N

\* The last entry of a nonempty sequence.
Last(q) == q[Len(q)]
RunStepReturns == {"runStep:true", "runStep:false"}

\* The calls run() has made so far are in the order of its loop: init first;
\* a runStep only right after a writeReports; after a runStep that returned
\* false nothing but the closing writeReports and finalize; finalize only
\* last, and right after a writeReports.
RunLogInOrder ==
    \A i \in 1..Len(runLog) :
        /\ (i = 1) <=> (runLog[i] = "init")
        /\ runLog[i] \in RunStepReturns => runLog[i - 1] = "writeReports"
        /\ (runLog[i] = "writeReports" /\ i < Len(runLog)) =>
              runLog[i + 1] \in RunStepReturns \cup {"finalize"}
        /\ (runLog[i] = "writeReports" /\ i > 2) =>
              runLog[i - 1] \in RunStepReturns
        /\ (runLog[i] = "runStep:true" /\ i < Len(runLog)) =>
              runLog[i + 1] = "writeReports"
        /\ (runLog[i] = "runStep:false" /\ i < Len(runLog)) =>
              /\ runLog[i + 1] = "writeReports"
              /\ i + 1 < Len(runLog) => runLog[i + 2] = "finalize"
        /\ runLog[i] = "finalize" =>
              /\ i = Len(runLog)
              /\ runLog[i - 1] = "writeReports"

\* run() has returned: the loop ended because the timer was done or the last
\* runStep returned false, then writeReports and finalize ran, once.
RunLogComplete ==
    /\ Len(runLog) >= 3
    /\ Last(runLog) = "finalize"
    /\ runLog[Len(runLog) - 1] = "writeReports"
    /\ Cardinality({i \in 1..Len(runLog) : runLog[i] = "finalize"}) = 1
    /\ Cardinality({i \in 1..Len(runLog) : runLog[i] = "writeReports"})
          = Cardinality({i \in 1..Len(runLog) : runLog[i] \in RunStepReturns}) + 1
    /\ \/ runLog[Len(runLog) - 2] = "runStep:false"
       \/ TimerDone(timer)
    /\ report_.converged

\* C21: run() calls writeReports then runStep once per loop iteration, leaves
\* the loop at the first runStep that returns false or when the timer is done,
\* then calls writeReports once more and finalize exactly once; on a finite
\* schedule run() ends (it returns, or init has thrown before the loop).
C21_RunLoop ==
    /\ [](RunLogInOrder)
    /\ [](simpc = "finalized" => RunLogComplete)
    /\ [](simpc \in {"reported", "stepping", "stepped"} =>
             /\ Last(runLog) = "writeReports"
             /\ ~TimerDone(IF simpc = "reported" THEN timer ELSE entry.timer))
    /\ <>(simpc \in {"finalized", "threw"})

C21_Witness ==
    /\ simpc = "finalized"
    /\ runLog = <<"init", "writeReports", "runStep:true", "writeReports",
                  "runStep:false", "writeReports", "finalize">>
    /\ timer.numSteps = 2 /\ timer.currentStepNum = 1

\* C26: every runStep call that takes a step works with a solver constructed
\* during that call.
C26_SolverPerReportStep ==
    simpc \in {"stepping", "stepped"} => solver_ = entry.call

\* C27: a runStep call that finds an exit status records it in the report and
\* returns false having started no episode, written no output, not incremented
\* the timer and not saved; a call that finds none returns true having
\* incremented the timer exactly once and then saved the incremented timer.
C27_StopOrWholeStep ==
    /\ simpc = "stopped" =>
          /\ Last(runLog) = "runStep:false"
          /\ entry.exitStatus # NoExit
          /\ report_.exit_status = entry.exitStatus
          /\ timer = entry.timer
          /\ effects = entry.effects
    /\ (simpc = "loop" /\ entry.call > 0) =>
          /\ Last(runLog) = "runStep:true"
          /\ entry.exitStatus = NoExit
          /\ effects.increments = entry.effects.increments + 1
          /\ effects.episodes = entry.effects.episodes + 1
          /\ effects.outputs > entry.effects.outputs
          /\ Len(effects.saves) = Len(entry.effects.saves) + 1
          /\ Last(effects.saves) = timer.currentStepNum

C27_Witness ==
    /\ simpc = "stopped" /\ entry.call = 2 /\ report_.exit_status = 2
    /\ effects.increments = 1 /\ effects.saves = <<1>>
    /\ timer.currentStepNum = 1

\* C28: checkRunningAsReservoirCouplingMaster decides at the first report step
\* whose slave count or master group count is positive: true (master) when
\* both are positive there, ReservoirCouplingError when exactly one is; false
\* (a normal flow simulation) only when every report step has both counts
\* zero.
C28_CouplingDecidedAtFirstStep ==
    (simpc # "constructed" /\ ~params.slave) =>
        LET rc == schedule.rescoup
            decisive == {i \in 1..Len(rc) :
                            rc[i].slave_count > 0 \/ rc[i].master_group_count > 0}
        IN IF decisive = {} THEN coupling = "none" /\ simpc = "loop"
           ELSE LET f == CHOOSE i \in decisive : \A j \in decisive : i <= j
                IN IF rc[f].slave_count > 0 /\ rc[f].master_group_count > 0
                   THEN coupling = "master" /\ simpc = "loop"
                   ELSE coupling = "threw" /\ simpc = "threw"

C28_Witness ==
    /\ ~params.slave /\ coupling = "threw"
    /\ schedule.rescoup = <<Rescoup(0, 0), Rescoup(0, 1), Rescoup(1, 1)>>

\* C29: in one report step at most one tuningUpdater call sees TUNING_CHANGE;
\* that call clears the event of the report step, and every later call of the
\* report step returns false unless the well-cycle time step differs from dt.
C29_TuningHandledOnce ==
    /\ Cardinality({i \in 1..Len(updater) : updater[i].hasEvent}) <= 1
    /\ \A i \in 1..Len(updater), j \in 1..Len(updater) :
          (i < j /\ updater[i].hasEvent) =>
              /\ ~updater[j].hasEvent
              /\ updater[j].result =>
                    /\ updater[j].wcycle
                    /\ updater[j].wcycle_time_step # updater[j].dt
    /\ (simpc \in {"stepping", "stepped"} /\ updater # <<>>) =>
          ~schedule.events[timer.currentStepNum + 1]

C29_Witness ==
    /\ Len(updater) = 3
    /\ updater[1].hasEvent /\ updater[1].result
    /\ updater[2].result /\ updater[2].wcycle_time_step # updater[2].dt
    /\ ~updater[3].result

====
